---- MODULE Spec2Model ----
(***************************************************************************)
(* OstimScheduler (src/src/main.py): the timetable data model (TimeSlot,   *)
(* Course, Schedule), the catalog kept by CourseScheduler, the exhaustive  *)
(* search generate_possible_schedules and the interactive loop             *)
(* add_optional_courses.                                                   *)
(*                                                                         *)
(* Representation.                                                         *)
(*  - A time is a zero-padded "HH:MM" string in the program and is         *)
(*    compared as a string; fixed-width strings order like the minutes     *)
(*    since midnight, which is what a time is here.                        *)
(*  - A course code is a string; it is the tuple of its characters'        *)
(*    ranks, compared lexicographically as Python compares strings.        *)
(*  - A dict is the sequence of its entries in insertion order (all_courses*)
(*    is iterated in that order); time_slots, whose order is never         *)
(*    observed, is a function on the days it holds.                        *)
(*  - A Course is the record of its six dataclass fields.  Every           *)
(*    add_course call is given a newly constructed Course, as on line 160, *)
(*    so no two list entries are one object and a record is a Course.      *)
(*  - Python's set of Courses buckets by __hash__ (code, section) and      *)
(*    separates by the dataclass __eq__, which compares all six fields:    *)
(*    it is the set of the records.  Its iteration order is not observed   *)
(*    by anything below; list(set) is written in one fixed order.          *)
(***************************************************************************)
EXTENDS Integers, Sequences, FiniteSets, TLC

VARIABLES all_courses, last_call, arg, ret,
          pc, heap, current_courses, selectable_courses, selected_courses,
          valid_courses, conflicted_courses, result, rounds, selectable0

vars == <<all_courses, last_call, arg, ret,
          pc, heap, current_courses, selectable_courses, selected_courses,
          valid_courses, conflicted_courses, result, rounds, selectable0>>

catVars == <<all_courses, last_call, arg, ret>>
extVars == <<pc, heap, current_courses, selectable_courses, selected_courses,
             valid_courses, conflicted_courses, result, rounds, selectable0>>

(***************************************************************************)
(* Bounds of the model                                                     *)
(***************************************************************************)
MaxSlots == 3
MaxCourses == 3
MaxMandatory == 2
MaxSelection == 2

(***************************************************************************)
(* Input universes                                                         *)
(***************************************************************************)
CodeA == <<1>>
CodeAB == <<1, 2>>
CodeB == <<2>>
Codes == {CodeA, CodeAB, CodeB}
Sections == {"1", "2"}
T0900 == 540
T0930 == 570
T1000 == 600
T1030 == 630
T1100 == 660

None == <<>>

SeqsUpTo(S, n) == UNION {[1..k -> S] : k \in 0..n}
Range(s) == {s[i] : i \in 1..Len(s)}

(***************************************************************************)
(* TimeSlot                                                                *)
(***************************************************************************)
TimeSlot(start_time, end_time) == [start_time |-> start_time, end_time |-> end_time]

overlaps_touching(self, other) ==
    ~(self.end_time < other.start_time \/ other.end_time < self.start_time)

overlaps(self, other) ==
    ~(self.end_time <= other.start_time \/ other.end_time <= self.start_time)

(***************************************************************************)
(* Course                                                                  *)
(***************************************************************************)
Course(code, name, section, classroom, instructor, time_slots) ==
    [code |-> code, name |-> name, section |-> section, classroom |-> classroom,
     instructor |-> instructor, time_slots |-> time_slots]

\* dataclass __eq__: the tuples of all fields are compared
CourseEq(c1, c2) ==
    /\ c1.code = c2.code
    /\ c1.name = c2.name
    /\ c1.section = c2.section
    /\ c1.classroom = c2.classroom
    /\ c1.instructor = c2.instructor
    /\ c1.time_slots = c2.time_slots

\* list.sort(key=start_time) after an append to a sorted list: the sort is
\* stable, so the appended slot lands behind every slot starting no later
RECURSIVE SortedInsert(_, _)
SortedInsert(slots, slot) ==
    IF slots = <<>> THEN <<slot>>
    ELSE IF Head(slots).start_time <= slot.start_time
         THEN <<Head(slots)>> \o SortedInsert(Tail(slots), slot)
         ELSE <<slot>> \o slots

add_time_slot(self, day, time_slot) ==
    LET ts == self.time_slots
        base == IF day \in DOMAIN ts THEN ts ELSE (day :> <<>>) @@ ts
    IN  [self EXCEPT !.time_slots = [base EXCEPT ![day] = SortedInsert(@, time_slot)]]

overlaps_with(self, other) ==
    \E day \in DOMAIN self.time_slots :
        /\ day \in DOMAIN other.time_slots
        /\ \E i \in 1..Len(self.time_slots[day]) :
             \E j \in 1..Len(other.time_slots[day]) :
                overlaps(self.time_slots[day][i], other.time_slots[day][j])

(***************************************************************************)
(* Schedule                                                                *)
(***************************************************************************)
\* combinations(self.courses, 2): the pairs of positions i < j
is_valid(courses) ==
    \A i \in 1..Len(courses) : \A j \in (i+1)..Len(courses) :
        ~overlaps_with(courses[i], courses[j])

(***************************************************************************)
(* CourseScheduler: the catalog                                            *)
(***************************************************************************)
Keys(d) == [i \in 1..Len(d) |-> d[i].code]
HasCode(d, code) == \E i \in 1..Len(d) : d[i].code = code
IndexOf(d, code) == CHOOSE i \in 1..Len(d) : d[i].code = code
CoursesOf(d, code) == d[IndexOf(d, code)].courses

add_course(d, course) ==
    LET d1 == IF HasCode(d, course.code) THEN d
              ELSE Append(d, [code |-> course.code, courses |-> <<>>])
        k  == IndexOf(d1, course.code)
    IN  [d1 EXCEPT ![k].courses = Append(@, course)]

\* lines 152-157: position of the first Course of that code with that
\* section, 0 for `course is None`
find_existing_none(d, code, section) == 0

find_existing(d, code, section) ==
    IF ~HasCode(d, code) THEN 0
    ELSE LET cs == CoursesOf(d, code)
             hits == {i \in 1..Len(cs) : cs[i].section = section}
         IN  IF hits = {} THEN 0 ELSE CHOOSE i \in hits : \A j \in hits : i <= j

\* one data row of the pasted text (lines 133-163); a row that the parser
\* skips (lines 126-141) leaves the catalog as it is and is not drawn
Row(day, start_time, end_time, code, section, name, classroom, instructor) ==
    [day |-> day, start_time |-> start_time, end_time |-> end_time, code |-> code,
     section |-> section, name |-> name, classroom |-> classroom,
     instructor |-> instructor]

parse_row(d, row) ==
    LET time_slot == TimeSlot(row.start_time, row.end_time)
        instructor == IF row.instructor = "" THEN "Henuz Belirlenmemis" ELSE row.instructor
        found == find_existing(d, row.code, row.section)
        d1 == IF found = 0
              THEN add_course(d, Course(row.code, row.name, row.section,
                                        row.classroom, instructor, <<>>))
              ELSE d
        k  == IndexOf(d1, row.code)
        n  == IF found = 0 THEN Len(d1[k].courses) ELSE found
    IN  [d1 EXCEPT ![k].courses[n] = add_time_slot(@, row.day, time_slot)]

RECURSIVE parse_schedule(_, _)
parse_schedule(d, rows) ==
    IF rows = <<>> THEN d ELSE parse_schedule(parse_row(d, Head(rows)), Tail(rows))

\* Python's < on strings
RECURSIVE StrLess(_, _)
StrLess(a, b) ==
    IF b = <<>> THEN FALSE
    ELSE IF a = <<>> THEN TRUE
    ELSE IF Head(a) # Head(b) THEN Head(a) < Head(b)
    ELSE StrLess(Tail(a), Tail(b))

RECURSIVE InsertCode(_, _)
InsertCode(sorted, code) ==
    IF sorted = <<>> THEN <<code>>
    ELSE IF StrLess(code, Head(sorted)) THEN <<code>> \o sorted
    ELSE <<Head(sorted)>> \o InsertCode(Tail(sorted), code)

RECURSIVE SortCodes(_)
SortCodes(codes) ==
    IF codes = <<>> THEN <<>>
    ELSE InsertCode(SortCodes(SubSeq(codes, 1, Len(codes) - 1)), codes[Len(codes)])

sorted_keys_unsorted(d) == Keys(d)

sorted_keys(d) == SortCodes(Keys(d))

\* f"{i+1}. {code}": the number, then ". ", then the code
get_numbered_course_list(d) ==
    LET courses == sorted_keys(d)
    IN  [i \in 1..Len(courses) |-> [number |-> i, sep |-> ". ", code |-> courses[i]]]

get_course_code_by_number(d, number) ==
    LET courses == sorted_keys(d)
    IN  IF 1 <= number /\ number <= Len(courses) THEN courses[number] ELSE None

(***************************************************************************)
(* generate_possible_schedules                                             *)
(***************************************************************************)
\* lines 180-182 without the membership test: an unknown code contributes
\* an empty candidate list
RECURSIVE section_combinations_unguarded(_, _)
section_combinations_unguarded(d, mandatory_courses) ==
    IF mandatory_courses = <<>> THEN <<>>
    ELSE LET course_code == Head(mandatory_courses)
             rest == section_combinations_unguarded(d, Tail(mandatory_courses))
         IN  IF HasCode(d, course_code)
             THEN <<CoursesOf(d, course_code)>> \o rest
             ELSE << <<>> >> \o rest

RECURSIVE section_combinations(_, _)
section_combinations(d, mandatory_courses) ==
    IF mandatory_courses = <<>> THEN <<>>
    ELSE LET course_code == Head(mandatory_courses)
             rest == section_combinations(d, Tail(mandatory_courses))
         IN  IF HasCode(d, course_code)
             THEN <<CoursesOf(d, course_code)>> \o rest
             ELSE rest

\* itertools.product(*lists): the first list varies slowest; the product of
\* no list is the one empty tuple
RECURSIVE product(_)
product(lists) ==
    IF lists = <<>> THEN << <<>> >>
    ELSE LET first == Head(lists)
             rest  == product(Tail(lists))
             n     == Len(rest)
         IN  [k \in 1..(Len(first) * n) |->
                <<first[((k - 1) \div n) + 1]>> \o rest[((k - 1) % n) + 1]]

generate_possible_schedules(d, mandatory_courses) ==
    SelectSeq(product(section_combinations(d, mandatory_courses)), is_valid)

\* create_schedule, lines 339-346, on the scheduler that line 331 filled
RECURSIVE Truthy(_)
Truthy(codes) ==
    IF codes = <<>> THEN <<>>
    ELSE IF Head(codes) # None THEN <<Head(codes)>> \o Truthy(Tail(codes))
    ELSE Truthy(Tail(codes))

NotFoundReport == "Uygun program bulunamadi!"
FoundReport == "adet olasi program bulundu:"

create_schedule(d, selected_numbers) ==
    LET looked_up == [i \in 1..Len(selected_numbers) |->
                         get_course_code_by_number(d, selected_numbers[i])]
        mandatory_codes == Truthy(looked_up)
        possible_schedules == generate_possible_schedules(d, mandatory_codes)
    IN  [mandatory_codes |-> mandatory_codes,
         possible_schedules |-> possible_schedules,
         report |-> IF possible_schedules = <<>> THEN NotFoundReport ELSE FoundReport]

(***************************************************************************)
(* Inputs: the Courses handed to add_course, the rows handed to            *)
(* parse_schedule, the catalogs they build                                 *)
(***************************************************************************)
OneDay(day, start_time, end_time) == (day :> <<TimeSlot(start_time, end_time)>>)

Pool ==
    { Course(CodeA,  "Ders", "1", "D1", "Ogr", OneDay("Pazartesi", T0900, T1000)),
      Course(CodeA,  "Ders", "2", "D1", "Ogr", OneDay("Pazartesi", T0930, T1030)),
      Course(CodeAB, "Ders", "1", "D1", "Ogr", OneDay("Pazartesi", T1000, T1100)),
      Course(CodeAB, "Ders", "2", "D1", "Ogr", OneDay("Sali", T0900, T1000)),
      Course(CodeAB, "Ders", "1", "D2", "Ogr",
             OneDay("Pazartesi", T1000, T1100) @@ OneDay("Sali", T0900, T1000)),
      Course(CodeB,  "Ders", "1", "D1", "Ogr", OneDay("Pazartesi", T0930, T1030)) }

RowTimes ==
    { <<"Pazartesi", T0900, T1000>>, <<"Pazartesi", T1000, T1100>>, <<"Sali", T0900, T1000>> }

RowPool ==
    { Row(t[1], t[2], t[3], code, section, "Ders", "D1", "") :
        t \in RowTimes, code \in Codes, section \in Sections }

RECURSIVE add_courses(_, _)
add_courses(d, courses) ==
    IF courses = <<>> THEN d ELSE add_courses(add_course(d, Head(courses)), Tail(courses))

Catalogs == {add_courses(<<>>, cs) : cs \in SeqsUpTo(Pool, MaxCourses)}

SlotsOfCourse(c) ==
    LET ds == DOMAIN c.time_slots
        RECURSIVE Sum(_)
        Sum(S) == IF S = {} THEN 0
                  ELSE LET x == CHOOSE x \in S : TRUE
                       IN  Len(c.time_slots[x]) + Sum(S \ {x})
    IN  Sum(ds)

RECURSIVE SlotsOfList(_)
SlotsOfList(cs) == IF cs = <<>> THEN 0 ELSE SlotsOfCourse(Head(cs)) + SlotsOfList(Tail(cs))

RECURSIVE TotalSlots(_)
TotalSlots(d) == IF d = <<>> THEN 0 ELSE SlotsOfList(Head(d).courses) + TotalSlots(Tail(d))

(***************************************************************************)
(* The catalog's interface as a state machine                              *)
(***************************************************************************)
ExtIdle ==
    /\ pc = "idle" /\ heap = <<>> /\ current_courses = 0
    /\ selectable_courses = <<>> /\ selected_courses = <<>>
    /\ valid_courses = <<>> /\ conflicted_courses = <<>>
    /\ result = 0 /\ rounds = 0 /\ selectable0 = <<>>

InitCat ==
    /\ all_courses = <<>>
    /\ last_call = "__init__" /\ arg = None /\ ret = None
    /\ ExtIdle

AddCourse(course) ==
    /\ TotalSlots(all_courses) + SlotsOfCourse(course) <= MaxSlots
    /\ all_courses' = add_course(all_courses, course)
    /\ last_call' = "add_course" /\ arg' = None /\ ret' = None
    /\ UNCHANGED extVars

ParseSchedule(rows) ==
    /\ TotalSlots(all_courses) + Len(rows) <= MaxSlots
    /\ all_courses' = parse_schedule(all_courses, rows)
    /\ last_call' = "parse_schedule" /\ arg' = None /\ ret' = None
    /\ UNCHANGED extVars

GetNumberedCourseList ==
    /\ last_call' = "get_numbered_course_list" /\ arg' = None
    /\ ret' = get_numbered_course_list(all_courses)
    /\ UNCHANGED <<all_courses, extVars>>

GetCourseCodeByNumber(number) ==
    /\ last_call' = "get_course_code_by_number" /\ arg' = number
    /\ ret' = get_course_code_by_number(all_courses, number)
    /\ UNCHANGED <<all_courses, extVars>>

NextCat ==
    \/ \E course \in Pool : AddCourse(course)
    \/ \E row \in RowPool : ParseSchedule(<<row>>)
    \/ GetNumberedCourseList
    \/ \E number \in -1..(MaxSlots + 1) : GetCourseCodeByNumber(number)

SpecCat == InitCat /\ [][NextCat]_vars

(***************************************************************************)
(* The search on a built catalog                                           *)
(***************************************************************************)
InitGen ==
    /\ all_courses \in Catalogs
    /\ last_call = "__init__" /\ arg = None /\ ret = None
    /\ ExtIdle

\* create_schedule searches once per run (line 342)
GeneratePossibleSchedules(mandatory_courses) ==
    /\ last_call = "__init__"
    /\ last_call' = "generate_possible_schedules" /\ arg' = mandatory_courses
    /\ ret' = generate_possible_schedules(all_courses, mandatory_courses)
    /\ UNCHANGED <<all_courses, extVars>>

CreateSchedule(selected_numbers) ==
    /\ last_call = "__init__"
    /\ last_call' = "create_schedule" /\ arg' = selected_numbers
    /\ ret' = create_schedule(all_courses, selected_numbers)
    /\ UNCHANGED <<all_courses, extVars>>

NextGen ==
    \/ \E mandatory_courses \in SeqsUpTo(Codes, MaxMandatory) :
          GeneratePossibleSchedules(mandatory_courses)
    \/ \E selected_numbers \in SeqsUpTo(0..(MaxCourses + 1), MaxMandatory) \ {<<>>} :
          CreateSchedule(selected_numbers)

SpecGen == InitGen /\ [][NextGen]_vars

(***************************************************************************)
(* add_optional_courses                                                    *)
(*                                                                         *)
(* heap holds the collections the method touches, one sequence each: heap[1]*)
(* is schedule.courses of the argument, the others are allocated by the    *)
(* method.  A set is kept as the sequence of its distinct elements.        *)
(***************************************************************************)
ScheduleCourses == 1
Terminal == {"Completed", "Skipped", "StoppedWithConflicts", "NoElectivesAvailable"}
Running == {"start", "offering", "ask_retry"}

\* The comma-separated pieces of an answer, after strip(): a decimal digit
\* string is the number it spells; NonDigit is a piece str.isdigit() rejects
\* ("", "x", "-1"); DigitNotDecimal is a piece str.isdigit() accepts and int()
\* rejects (a superscript digit such as U+00B2)
NonDigit == -1
DigitNotDecimal == -2
Tokens == {NonDigit, DigitNotDecimal} \cup (0..(MaxCourses + 1))

InList(course, courses) == \E i \in 1..Len(courses) : CourseEq(course, courses[i])

\* set.update(courses) on the set whose elements are items
RECURSIVE set_update(_, _)
set_update(items, courses) ==
    IF courses = <<>> THEN items
    ELSE set_update(IF InList(Head(courses), items) THEN items
                    ELSE Append(items, Head(courses)),
                    Tail(courses))

\* set(schedule.courses) without the copy: the name is bound to the
\* argument's own collection
new_set_alias(h, src) == [heap |-> h, ref |-> src]

\* line 192: set(schedule.courses) is a new object
new_set(h, src) == [heap |-> Append(h, set_update(<<>>, h[src])), ref |-> Len(h) + 1]

\* list(current_courses) is a new object
new_list(h, src) == [heap |-> Append(h, h[src]), ref |-> Len(h) + 1]

\* lines 196-200, all_courses.values() in insertion order
RECURSIVE all_sections(_)
all_sections(d) == IF d = <<>> THEN <<>> ELSE Head(d).courses \o all_sections(Tail(d))

initial_selectable(d, courses) ==
    LET current_course_codes == {courses[i].code : i \in 1..Len(courses)}
        NotRepresented(course) == course.code \notin current_course_codes
    IN  SelectSeq(all_sections(d), NotRepresented)

\* line 217: int() of every piece that isdigit() accepts
IsDigit(t) == t # NonDigit
IntRaises(t) == t = DigitNotDecimal

raises_value_error(tokens) ==
    \E i \in 1..Len(tokens) : IsDigit(tokens[i]) /\ IntRaises(tokens[i])

selected_numbers_of(tokens) == SelectSeq(tokens, IsDigit)

\* line 218
selected_courses_of(selectable, tokens) ==
    LET nums == selected_numbers_of(tokens)
        InRange(num) == 1 <= num /\ num <= Len(selectable)
        kept == SelectSeq(nums, InRange)
    IN  [i \in 1..Len(kept) |-> selectable[kept[i]]]

\* lines 220-227
fits(current, course) == is_valid(current \o <<course>>)

valid_of(current, selected) ==
    LET Fits(course) == fits(current, course)
    IN  SelectSeq(selected, Fits)

conflicted_of(current, selected) ==
    LET Clashes(course) == ~fits(current, course)
    IN  SelectSeq(selected, Clashes)

remove_conflicted_none(selectable, conflicted) == selectable

\* line 239
remove_conflicted(selectable, conflicted) ==
    LET Keep(course) == ~InList(course, conflicted)
    IN  SelectSeq(selectable, Keep)

Bases(d) ==
    UNION {Range(generate_possible_schedules(d, m)) : m \in SeqsUpTo(Codes, MaxMandatory)}

InitExt ==
    /\ all_courses \in Catalogs
    /\ last_call = "add_optional_courses" /\ arg = None /\ ret = None
    /\ pc = "start"
    /\ \E base \in Bases(all_courses) : heap = <<base>>
    /\ current_courses = 0
    /\ selectable_courses = <<>> /\ selected_courses = <<>>
    /\ valid_courses = <<>> /\ conflicted_courses = <<>>
    /\ result = 0 /\ rounds = 0 /\ selectable0 = <<>>

\* lines 192-200
Begin ==
    /\ pc = "start"
    /\ LET made == new_set(heap, ScheduleCourses)
       IN  /\ heap' = made.heap
           /\ current_courses' = made.ref
    /\ selectable_courses' = initial_selectable(all_courses, heap[ScheduleCourses])
    /\ selectable0' = selectable_courses'
    /\ pc' = "offering"
    /\ UNCHANGED <<catVars, selected_courses, valid_courses, conflicted_courses,
                   result, rounds>>

Return(h, state) ==
    LET made == new_list(h, current_courses)
    IN  /\ heap' = made.heap
        /\ result' = made.ref
        /\ pc' = state

\* lines 203-205
NoElectives ==
    /\ pc = "offering"
    /\ selectable_courses = <<>>
    /\ rounds' = rounds + 1
    /\ Return(heap, "NoElectivesAvailable")
    /\ UNCHANGED <<catVars, current_courses, selectable_courses, selected_courses,
                   valid_courses, conflicted_courses, selectable0>>

\* lines 212-215: the answer is 'G'
Skip ==
    /\ pc = "offering"
    /\ selectable_courses # <<>>
    /\ rounds' = rounds + 1
    /\ Return(heap, "Skipped")
    /\ UNCHANGED <<catVars, current_courses, selectable_courses, selected_courses,
                   valid_courses, conflicted_courses, selectable0>>

\* line 217 raises: the exception leaves add_optional_courses
SelectRaises(tokens) ==
    /\ pc = "offering"
    /\ selectable_courses # <<>>
    /\ raises_value_error(tokens)
    /\ rounds' = rounds + 1
    /\ pc' = "ValueError"
    /\ UNCHANGED <<catVars, heap, current_courses, selectable_courses, selected_courses,
                   valid_courses, conflicted_courses, result, selectable0>>

\* lines 217-229 and 240-242: the answer is a comma-separated list
Select(tokens) ==
    /\ pc = "offering"
    /\ selectable_courses # <<>>
    /\ ~raises_value_error(tokens)
    /\ rounds' = rounds + 1
    /\ LET selected == selected_courses_of(selectable_courses, tokens)
           valid == valid_of(heap[current_courses], selected)
           conflicted == conflicted_of(heap[current_courses], selected)
       IN  /\ selected_courses' = selected
           /\ valid_courses' = valid
           /\ conflicted_courses' = conflicted
           /\ IF conflicted # <<>>
              THEN /\ pc' = "ask_retry"
                   /\ UNCHANGED <<heap, result>>
              ELSE Return([heap EXCEPT ![current_courses] = set_update(@, valid)],
                          "Completed")
    /\ UNCHANGED <<catVars, current_courses, selectable_courses, selectable0>>

\* lines 235-237: the answer is 'H'
RetryNo ==
    /\ pc = "ask_retry"
    /\ Return(heap, "StoppedWithConflicts")
    /\ UNCHANGED <<catVars, current_courses, selectable_courses, selected_courses,
                   valid_courses, conflicted_courses, rounds, selectable0>>

\* lines 238-239: any other answer
RetryYes ==
    /\ pc = "ask_retry"
    /\ selectable_courses' = remove_conflicted(selectable_courses, conflicted_courses)
    /\ pc' = "offering"
    /\ UNCHANGED <<catVars, heap, current_courses, selected_courses, valid_courses,
                   conflicted_courses, result, rounds, selectable0>>

NextExt ==
    \/ Begin
    \/ NoElectives
    \/ Skip
    \/ \E tokens \in SeqsUpTo(Tokens, MaxSelection) : Select(tokens)
    \/ \E tokens \in SeqsUpTo(Tokens, MaxSelection) : SelectRaises(tokens)
    \/ RetryNo
    \/ RetryYes

SpecExt == InitExt /\ [][NextExt]_vars

\* the prompt at lines 212 and 235 is always answered
SpecExtLive == SpecExt /\ WF_vars(NextExt)

(***************************************************************************)
(* What the specification says, stated without the operators above         *)
(***************************************************************************)
\* two Sections overlap on a shared weekday
SharedDayOverlap(c1, c2) ==
    \E day \in (DOMAIN c1.time_slots) \cap (DOMAIN c2.time_slots) :
        \E a \in Range(c1.time_slots[day]) : \E b \in Range(c2.time_slots[day]) :
            a.start_time < b.end_time /\ b.start_time < a.end_time

\* a valid timetable: no two of its Sections overlap on a shared weekday
NoOverlap(courses) ==
    \A i \in 1..Len(courses) : \A j \in 1..Len(courses) :
        i # j => ~SharedDayOverlap(courses[i], courses[j])

KeyOf(c) == <<c.code, c.section>>

UniqueKeys(courses) ==
    \A i \in 1..Len(courses) : \A j \in 1..Len(courses) :
        i # j => KeyOf(courses[i]) # KeyOf(courses[j])

OnePerCode(courses) ==
    \A i \in 1..Len(courses) : \A j \in 1..Len(courses) :
        i # j => courses[i].code # courses[j].code

CatalogCodes(d) == {d[i].code : i \in 1..Len(d)}
CandidatesOf(d, code) == UNION {Range(d[i].courses) : i \in {k \in 1..Len(d) : d[k].code = code}}
AllCandidates(d) == UNION {Range(d[i].courses) : i \in 1..Len(d)}

\* the mandatory codes that have at least one candidate, in list order
Known(d, mandatory) ==
    LET IsKnown(code) == code \in CatalogCodes(d)
    IN  SelectSeq(mandatory, IsKnown)

\* the tuples of the Cartesian product of the per-code candidate lists
Tuples(d, mandatory) ==
    LET known == Known(d, mandatory)
    IN  {t \in [1..Len(known) -> AllCandidates(d)] :
            \A i \in 1..Len(known) : t[i] \in CandidatesOf(d, known[i])}

NoRepeats(s) == \A i \in 1..Len(s) : \A j \in 1..Len(s) : i # j => s[i] # s[j]

\* a strictly precedes b in lexicographic order
LexBefore(a, b) ==
    \E k \in 1..Len(b) :
        /\ k - 1 <= Len(a)
        /\ \A m \in 1..(k - 1) : a[m] = b[m]
        /\ (k > Len(a) \/ a[k] < b[k])

(***************************************************************************)
(* Elective Extension                                                      *)
(***************************************************************************)
\* C1: in every terminal state the Timetable returned by add_optional_courses
\* is valid: no two of its Sections overlap on a shared weekday.
C1_ReturnedTimetableValid ==
    pc \in Terminal => NoOverlap(heap[result])

\* C2: when a round's selection holds a conflicting and a compatible Section
\* and the user answers 'stop', the returned Timetable is the current
\* Timetable's Sections plus exactly the compatible selected ones, and none
\* of the conflicted ones.
C2_StopCommitsCompatible ==
    (pc = "StoppedWithConflicts" /\ valid_courses # <<>> /\ conflicted_courses # <<>>)
        => /\ Range(heap[result]) = Range(heap[current_courses]) \cup Range(valid_courses)
           /\ Range(heap[result]) \cap Range(conflicted_courses) = {}

\* C5: every retried round strictly shrinks the selectable list (the conflicted
\* Sections leave it, nothing joins it), every other round ends in a terminal
\* state, and for any sequence of answers add_optional_courses ends in one of
\* the four terminal states after at most |selectable|+1 rounds.
C5_RetryShrinks ==
    (pc = "ask_retry" /\ pc' = "offering")
        => /\ Len(selectable_courses') < Len(selectable_courses)
           /\ Range(selectable_courses') \subseteq Range(selectable_courses)
           /\ Range(selectable_courses') \cap Range(conflicted_courses) = {}

C5_OtherRoundsEnd ==
    (pc = "offering" /\ pc' # "offering") => pc' \in Terminal \cup {"ask_retry"}

C5_Terminates ==
    /\ [](rounds <= Len(selectable0) + 1)
    /\ [](pc \in Running \cup Terminal)
    /\ [][C5_RetryShrinks /\ C5_OtherRoundsEnd]_vars
    /\ <>(pc \in Terminal)

\* C6: no Timetable produced by Combination Search or by Elective Extension
\* holds two Sections with the same (code, section_id) key.
C6_NoDuplicateKey ==
    /\ pc # "idle" => UniqueKeys(heap[ScheduleCourses])
    /\ pc \in Terminal => UniqueKeys(heap[result])

\* C9: add_optional_courses leaves the base Timetable's collection and the
\* catalog unchanged in every step, returns a collection that is neither the
\* base's nor the working set, and on the Skipped and NoElectivesAvailable
\* paths returns exactly the Sections of the base.
C9_Step ==
    /\ heap'[ScheduleCourses] = heap[ScheduleCourses]
    /\ all_courses' = all_courses
    /\ result' # 0 => (result' # ScheduleCourses /\ result' # current_courses')
    /\ (result = 0 /\ result' # 0) => result' > Len(heap)
    /\ pc' \in {"Skipped", "NoElectivesAvailable"}
          => Range(heap'[result']) = Range(heap'[ScheduleCourses])

C9_NonDestructive == [][C9_Step]_vars

C9_Witness ==
    pc = "Completed" /\ Len(heap[result]) > Len(heap[ScheduleCourses])

\* C10: if the base Timetable holds at most one Section per course code, so
\* does the Timetable returned by add_optional_courses.
C10_OneSectionPerCode ==
    (pc \in Terminal /\ OnePerCode(heap[ScheduleCourses])) => OnePerCode(heap[result])

(***************************************************************************)
(* Combination Search                                                      *)
(***************************************************************************)
\* C3: each Timetable returned by generate_possible_schedules holds exactly one
\* Section for each mandatory code that has a candidate, and no other Section,
\* and is valid; every tuple of the product that is absent from the output is
\* invalid.
C3_SoundComplete ==
    last_call = "generate_possible_schedules" =>
        /\ \A k \in 1..Len(ret) :
              /\ \A code \in Range(Known(all_courses, arg)) :
                    Cardinality({i \in 1..Len(ret[k]) : ret[k][i].code = code}) = 1
              /\ \A i \in 1..Len(ret[k]) :
                    /\ ret[k][i].code \in Range(arg)
                    /\ ret[k][i] \in CandidatesOf(all_courses, ret[k][i].code)
              /\ NoOverlap(ret[k])
        /\ \A t \in Tuples(all_courses, arg) : t \notin Range(ret) => ~NoOverlap(t)

\* C3 as amended: each returned Timetable is a tuple of the product, one Section
\* per occurrence of a mandatory code that has a candidate (so exactly one per
\* code when the list repeats no code), and is valid; every tuple of the
\* product that is absent from the output is invalid.
C3_SoundCompletePerOccurrence ==
    last_call = "generate_possible_schedules" =>
        /\ \A k \in 1..Len(ret) :
              /\ ret[k] \in Tuples(all_courses, arg)
              /\ NoOverlap(ret[k])
              /\ NoRepeats(arg) =>
                    \A code \in Range(Known(all_courses, arg)) :
                        Cardinality({i \in 1..Len(ret[k]) : ret[k][i].code = code}) = 1
        /\ \A t \in Tuples(all_courses, arg) : t \notin Range(ret) => ~NoOverlap(t)

C3_Witness ==
    /\ last_call = "generate_possible_schedules"
    /\ Len(arg) = 2 /\ NoRepeats(arg)
    /\ ret # <<>>
    /\ \E t \in Tuples(all_courses, arg) : t \notin Range(ret)

\* C4: if any mandatory code has no candidate Sections, or the list is empty,
\* generate_possible_schedules returns zero Timetables.
C4_UnknownCodeGivesNothing ==
    last_call = "generate_possible_schedules" =>
        ((arg = <<>> \/ \E code \in Range(arg) : code \notin CatalogCodes(all_courses))
            => ret = <<>>)

\* C4 as amended: a mandatory code without candidates is skipped; the result is
\* built from the remaining codes alone and is empty exactly when every tuple
\* of their product conflicts; when no code remains the result is the single
\* empty Timetable, which create_schedule reports as a found program.
C4_UnknownCodesSkipped ==
    /\ last_call = "generate_possible_schedules" =>
          /\ \A k \in 1..Len(ret) : Len(ret[k]) = Len(Known(all_courses, arg))
          /\ Known(all_courses, arg) = <<>> => ret = << <<>> >>
          /\ ret = <<>> <=> \A t \in Tuples(all_courses, arg) : ~NoOverlap(t)
    /\ last_call = "create_schedule" =>
          /\ ret.mandatory_codes = <<>> =>
                (ret.possible_schedules = << <<>> >> /\ ret.report = FoundReport)
          /\ ret.report = NotFoundReport
                <=> \A t \in Tuples(all_courses, ret.mandatory_codes) : ~NoOverlap(t)

C4_Witness ==
    /\ last_call = "generate_possible_schedules"
    /\ \E code \in Range(arg) : code \notin CatalogCodes(all_courses)
    /\ Known(all_courses, arg) # <<>>
    /\ ret # <<>>

(***************************************************************************)
(* CatalogIndex                                                            *)
(***************************************************************************)
AllUniqueKeys(d) == \A i \in 1..Len(d) : UniqueKeys(d[i].courses)

\* C7: after any sequence of add calls each code's list holds at most one
\* Section per (code, section_id) key.
C7_AddDeduplicates == AllUniqueKeys(all_courses)

GrowsByAppending(d, e) ==
    /\ Len(d) <= Len(e)
    /\ \A i \in 1..Len(d) :
          /\ e[i].code = d[i].code
          /\ Len(d[i].courses) <= Len(e[i].courses)
          /\ \A j \in 1..Len(d[i].courses) : KeyOf(e[i].courses[j]) = KeyOf(d[i].courses[j])

NumSections(d) == Len(all_sections(d))

\* C7 as amended: add_course appends its Section unconditionally; it is
\* parse_schedule that looks a Section up by (code, section_id) before creating
\* it, so a parsed row never adds a second Section with a key already in the
\* list; lists only ever grow by appending.
C7_Step ==
    /\ GrowsByAppending(all_courses, all_courses')
    /\ (last_call' = "add_course" /\ all_courses' # all_courses)
          => NumSections(all_courses') = NumSections(all_courses) + 1
    /\ (last_call' = "parse_schedule" /\ AllUniqueKeys(all_courses))
          => AllUniqueKeys(all_courses')

C7_ParseDeduplicates == [][C7_Step]_vars

C7_Witness ==
    /\ last_call = "parse_schedule"
    /\ \E c \in AllCandidates(all_courses) : SlotsOfCourse(c) >= 2
    /\ AllUniqueKeys(all_courses)

\* C8: numbered_course_list has one entry "N. code" per distinct course code,
\* in lexicographic order numbered from 1; code_for_number(n) is the code of
\* entry n for n in [1, count] and absent for every other n.
C8_Numbering ==
    /\ last_call = "get_numbered_course_list" =>
          /\ Len(ret) = Cardinality(CatalogCodes(all_courses))
          /\ {ret[i].code : i \in 1..Len(ret)} = CatalogCodes(all_courses)
          /\ \A i \in 1..Len(ret) : ret[i].number = i /\ ret[i].sep = ". "
          /\ \A i \in 1..Len(ret) : \A j \in 1..Len(ret) :
                i < j => LexBefore(ret[i].code, ret[j].code)
    /\ last_call = "get_course_code_by_number" =>
          IF 1 <= arg /\ arg <= Cardinality(CatalogCodes(all_courses))
          THEN /\ ret \in CatalogCodes(all_courses)
               /\ Cardinality({c \in CatalogCodes(all_courses) : LexBefore(c, ret)}) = arg - 1
          ELSE ret = None

C8_Witness ==
    /\ last_call = "get_numbered_course_list"
    /\ Len(ret) >= 2
    /\ \E i \in 1..Len(all_courses) : Len(all_courses[i].courses) >= 2
    /\ \E i \in 1..Len(all_courses) : all_courses[i].code # ret[i].code

====
